---- MODULE Spec2Model ----
(***************************************************************************)
(* A model of common/src/crypto.rs: Hash256, Signature, TypedSignature,    *)
(* PublicKey, PrivateKey, check_keypair_match and generate_keypair.        *)
(*                                                                         *)
(* The external primitives (blake3, ed25519_dalek, StdRng, serde_json) are *)
(* modelled symbolically and ideally: a byte string is a sequence of       *)
(* chunks, a chunk is a tagged tuple, a digest is the term Blake3(data), a *)
(* signature is the term Ed25519Sig(secret, public, msg).  The functions   *)
(* of crypto.rs themselves are translated statement by statement, and the  *)
(* calls between Signature::sign and check_keypair_match are modelled with *)
(* an explicit call stack, one frame per activation.                       *)
(***************************************************************************)
EXTENDS Integers, Sequences, FiniteSets, TLC

VARIABLES stack, call, outcome, generated

vars == <<stack, call, outcome, generated>>

(***************************************************************************)
(* Bounds: seeds, messages and values a caller draws from, the depth at    *)
(* which the thread's stack is exhausted, generate_keypair calls per seed. *)
(***************************************************************************)
NumSeeds == 3
NumMsgs == 2
NumValues == 2
MaxStack == 5
MaxGen == 2

(***************************************************************************)
(* Byte strings.  Chunks are tuples whose first component is a tag.        *)
(***************************************************************************)
Byte(n) == <<"byte", n>>
Text(s, n) == <<"text", s, n>>
Blake3(data) == <<"blake3", data>>
Zero32 == <<"zeros">>
Secret(rngseed) == <<"secret", rngseed>>
Public(secret) == <<"public", secret>>
Ed25519Sig(secret, public, msg) == <<"ed25519sig", secret, public, msg>>

ChunkLen(c) ==
    CASE c[1] = "byte" -> 1
      [] c[1] \in {"blake3", "zeros", "secret", "public"} -> 32
      [] c[1] = "ed25519sig" -> 64
      [] c[1] = "text" -> c[3]

RECURSIVE ByteLen(_)
ByteLen(bytes) ==
    IF bytes = <<>> THEN 0 ELSE ChunkLen(Head(bytes)) + ByteLen(Tail(bytes))

(***************************************************************************)
(* Result<T, CryptoError>.                                                 *)
(***************************************************************************)
Ok(v) == [kind |-> "Ok", val |-> v]
InvalidFormat(context) == [kind |-> "InvalidFormat", val |-> context]
VerificationFailed == [kind |-> "VerificationFailed", val |-> <<>>]

(***************************************************************************)
(* Display for Hash256, Signature and PublicKey: write!(f, "?").           *)
(***************************************************************************)
Display(x) == <<Text("?", 1)>>

(***************************************************************************)
(* Hash256.                                                                *)
(***************************************************************************)
Hash256_zero == [hash |-> <<Zero32>>]

Hash256_hash(data) == [hash |-> <<Blake3(data)>>]

Hash256_aggregate_swapped(self, other) == Hash256_hash(other.hash \o self.hash)

Hash256_aggregate(self, other) == Hash256_hash(self.hash \o other.hash)

(***************************************************************************)
(* PublicKey, PrivateKey, Signature: wrappers of a byte vector.            *)
(***************************************************************************)
PublicKey(bytes) == [key |-> bytes]
PrivateKey(bytes) == [key |-> bytes]
Signature(bytes) == [signature |-> bytes]
TypedSignature_new(signature) == [signature |-> signature, mark |-> "PhantomData"]

(***************************************************************************)
(* ed25519_dalek, as crypto.rs uses it.  A public key decodes when it is   *)
(* the 32 bytes of a curve point, a secret key when it is any 32 bytes, a  *)
(* signature when it is the 64 bytes of a well-formed signature.  A        *)
(* signature made by Keypair {secret, public} verifies under a public key  *)
(* exactly when that key is both the one the keypair held and the one the  *)
(* secret derives, and the message is the one that was signed.             *)
(***************************************************************************)
PublicKey_from_bytes_ok(bytes) == Len(bytes) = 1 /\ bytes[1][1] = "public"
SecretKey_from_bytes_ok(bytes) == ByteLen(bytes) = 32
Signature_from_bytes_ok(bytes) == Len(bytes) = 1 /\ bytes[1][1] = "ed25519sig"
DerivedPublic(secret) == <<Public(secret)>>
Keypair_sign(secret, public, msg) == <<Ed25519Sig(secret, public, msg)>>
PublicKey_verify(public, msg, sig) ==
    /\ sig[1][3] = public
    /\ sig[1][4] = msg
    /\ DerivedPublic(sig[1][2]) = public

(***************************************************************************)
(* serde_json::to_vec over the values of T: a number serializes to its     *)
(* decimal digit; a value whose Serialize implementation fails gives Err.  *)
(***************************************************************************)
Value(n) == [n |-> n, fails |-> FALSE]
Unserializable == [n |-> 0, fails |-> TRUE]
to_vec_ok(value) == ~value.fails
to_vec(value) == <<Byte(48 + value.n)>>

(***************************************************************************)
(* generate_keypair (lines 184-199).                                       *)
(***************************************************************************)
StdRng_from_seed(seed_) == seed_
Keypair_generate(rng) ==
    LET secret == <<Secret(rng)>>
    IN  [secret |-> secret, public |-> DerivedPublic(secret)]

generate_keypair_unseeded(seed) ==
    LET seed_ == <<Zero32>>
        signing_key == Keypair_generate(StdRng_from_seed(seed_))
    IN  <<PublicKey(signing_key.public), PrivateKey(signing_key.secret)>>

generate_keypair(seed) ==
    LET seed_ == Hash256_hash(seed).hash
        signing_key == Keypair_generate(StdRng_from_seed(seed_))
    IN  <<PublicKey(signing_key.public), PrivateKey(signing_key.secret)>>

(***************************************************************************)
(* Signature::sign after the keypair check (lines 74-84), and              *)
(* Signature::verify (lines 88-96).                                        *)
(***************************************************************************)
Signature_sign_body_leaky(data, public_key, private_key) ==
    IF ~PublicKey_from_bytes_ok(public_key.key)
    THEN InvalidFormat(<<Text("public key: ", 12)>> \o Display(public_key))
    ELSE IF ~SecretKey_from_bytes_ok(private_key.key)
    THEN InvalidFormat(<<Text("private key: ", 13)>> \o private_key.key)
    ELSE Ok(Signature(Keypair_sign(private_key.key, public_key.key, data.hash)))

Signature_sign_body(data, public_key, private_key) ==
    IF ~PublicKey_from_bytes_ok(public_key.key)
    THEN InvalidFormat(<<Text("public key: ", 12)>> \o Display(public_key))
    ELSE IF ~SecretKey_from_bytes_ok(private_key.key)
    THEN InvalidFormat(<<Text("private key: [omitted]", 22)>>)
    ELSE Ok(Signature(Keypair_sign(private_key.key, public_key.key, data.hash)))

Signature_verify_key_first(self, data, public_key) ==
    IF ~PublicKey_from_bytes_ok(public_key.key)
    THEN InvalidFormat(<<Text("public_key: ", 12)>> \o Display(public_key))
    ELSE IF ~Signature_from_bytes_ok(self.signature)
    THEN InvalidFormat(<<Text("signature: ", 11)>> \o Display(self))
    ELSE IF PublicKey_verify(public_key.key, data.hash, self.signature)
    THEN Ok(<<>>)
    ELSE VerificationFailed

Signature_verify(self, data, public_key) ==
    IF ~Signature_from_bytes_ok(self.signature)
    THEN InvalidFormat(<<Text("signature: ", 11)>> \o Display(self))
    ELSE IF ~PublicKey_from_bytes_ok(public_key.key)
    THEN InvalidFormat(<<Text("public_key: ", 12)>> \o Display(public_key))
    ELSE IF PublicKey_verify(public_key.key, data.hash, self.signature)
    THEN Ok(<<>>)
    ELSE VerificationFailed

(***************************************************************************)
(* The inputs a caller can supply.  Keys and signatures are Deserialize,   *)
(* so besides the generated keys a caller can hold byte vectors that do    *)
(* not decode, and signatures that arrived from elsewhere: every signature *)
(* the scheme can produce over the hashes of the model, under matching and *)
(* under mismatched keypairs.                                              *)
(***************************************************************************)
Seeds == {<<Byte(i)>> : i \in 1..NumSeeds}
Msgs == {<<Byte(100 + i)>> : i \in 1..NumMsgs}
Values == {Value(i) : i \in 1..NumValues} \cup {Unserializable}
Garbage == <<Byte(0)>>

Keypairs == {generate_keypair(s) : s \in Seeds}
PublicKeys == {kp[1] : kp \in Keypairs} \cup {PublicKey(Garbage)}
PrivateKeys == {kp[2] : kp \in Keypairs} \cup {PrivateKey(Garbage)}
Matching(public_key, private_key) == <<public_key, private_key>> \in Keypairs

HashValues == {Hash256_hash(m) : m \in Msgs} \cup {Hash256_zero}
ValueHashes == {Hash256_hash(to_vec(v)) : v \in {w \in Values : to_vec_ok(w)}}
Signatures ==
    {Signature(Keypair_sign(kp[2].key, pub.key, h.hash)) :
        kp \in Keypairs,
        pub \in {k \in PublicKeys : PublicKey_from_bytes_ok(k.key)},
        h \in HashValues \cup ValueHashes}
    \cup {Signature(Garbage)}

(***************************************************************************)
(* State.  stack is the call stack, one frame per activation: a frame      *)
(* holds the function, its arguments, the line it is at, and its return    *)
(* value once it has one.  call is the invocation in progress, outcome     *)
(* what it gave its caller ("abort": the process died of a stack           *)
(* overflow), generated[s] the pairs generate_keypair(s) has returned.     *)
(***************************************************************************)
NoRet == [kind |-> "none", val |-> <<>>]
Pending == [kind |-> "pending", val |-> <<>>]
Abort == [kind |-> "abort", val |-> <<>>]
Returned(v) == [kind |-> "Value", val |-> v]
Frame(fn, args, pc) == [fn |-> fn, args |-> args, pc |-> pc, ret |-> NoRet]
Return(f, r) == [f EXCEPT !.pc = "ret", !.ret = r]
Top == stack[Len(stack)]
Running == stack # <<>> /\ outcome.kind = "pending"
KeypairCheckMessage == <<Text("Some Random Message", 19)>>

Init ==
    /\ stack = <<>>
    /\ call = [fn |-> "none", args |-> <<>>]
    /\ outcome = NoRet
    /\ generated = [s \in Seeds |-> <<>>]

(* A caller invokes one function of the module; the process is alive and idle. *)
Invoke(fn, args, pc) ==
    /\ stack = <<>>
    /\ outcome.kind = "none"
    /\ stack' = <<Frame(fn, args, pc)>>
    /\ call' = [fn |-> fn, args |-> args]
    /\ outcome' = Pending
    /\ UNCHANGED generated

CallSign ==
    \E h \in HashValues, pub \in PublicKeys, priv \in PrivateKeys :
        Invoke("Signature::sign",
               [data |-> h, public_key |-> pub, private_key |-> priv], "L73")

CallVerify ==
    \E sig \in Signatures, h \in HashValues, pub \in PublicKeys :
        Invoke("Signature::verify",
               [self |-> sig, data |-> h, public_key |-> pub], "L89")

CallTypedSign ==
    \E v \in Values, pub \in PublicKeys, priv \in PrivateKeys :
        Invoke("TypedSignature::sign",
               [data |-> v, public_key |-> pub, private_key |-> priv], "L111")

CallTypedVerify ==
    \E sig \in Signatures, v \in Values, pub \in PublicKeys :
        Invoke("TypedSignature::verify",
               [self |-> TypedSignature_new(sig), data |-> v, public_key |-> pub],
               "L128")

CallCheckKeypairMatch ==
    \E pub \in PublicKeys, priv \in PrivateKeys :
        Invoke("check_keypair_match",
               [public_key |-> pub, private_key |-> priv], "L178")

CallGenerateKeypair ==
    \E s \in Seeds :
        /\ Len(generated[s]) < MaxGen
        /\ Invoke("generate_keypair", [seed |-> s], "L185")

CallAggregate ==
    \E a \in HashValues, b \in HashValues :
        Invoke("Hash256::aggregate", [self |-> a, other |-> b], "L44")

(***************************************************************************)
(* A call pushes the callee's frame while the thread's stack has room; the *)
(* call that finds the stack exhausted aborts the process.                 *)
(***************************************************************************)
PushCall(callee) ==
    /\ Len(stack) < MaxStack
    /\ stack' = Append(stack, callee)
    /\ UNCHANGED <<call, outcome, generated>>

(* Signature::sign, line 73: check_keypair_match(public_key, private_key)? *)
Signature_sign ==
    /\ Running
    /\ Top.fn = "Signature::sign" /\ Top.pc = "L73"
    /\ PushCall(Frame("check_keypair_match",
                      [public_key |-> Top.args.public_key,
                       private_key |-> Top.args.private_key], "L178"))

(* check_keypair_match, lines 178-179: Signature::sign(Hash256::hash(msg), ..)? *)
check_keypair_match ==
    /\ Running
    /\ Top.fn = "check_keypair_match" /\ Top.pc = "L178"
    /\ PushCall(Frame("Signature::sign",
                      [data |-> Hash256_hash(KeypairCheckMessage),
                       public_key |-> Top.args.public_key,
                       private_key |-> Top.args.private_key], "L73"))

StackOverflow ==
    /\ Running
    /\ Top.pc \in {"L73", "L178"}
    /\ Len(stack) >= MaxStack
    /\ outcome' = Abort
    /\ UNCHANGED <<stack, call, generated>>

(* TypedSignature::sign, lines 111-113: serialize, hash, Signature::sign. *)
TypedSignature_sign ==
    /\ Running
    /\ Top.fn = "TypedSignature::sign" /\ Top.pc = "L111"
    /\ IF ~to_vec_ok(Top.args.data)
       THEN stack' = <<Return(Top, InvalidFormat(<<Text("data", 4)>>))>>
       ELSE /\ Len(stack) < MaxStack
            /\ stack' = <<[Top EXCEPT !.pc = "L113"],
                          Frame("Signature::sign",
                                [data |-> Hash256_hash(to_vec(Top.args.data)),
                                 public_key |-> Top.args.public_key,
                                 private_key |-> Top.args.private_key], "L73")>>
    /\ UNCHANGED <<call, outcome, generated>>

(* Signature::verify, lines 89-95. *)
Signature_verify_call ==
    /\ Running
    /\ Top.fn = "Signature::verify" /\ Top.pc = "L89"
    /\ stack' = <<Return(Top, Signature_verify(Top.args.self, Top.args.data,
                                               Top.args.public_key))>>
    /\ UNCHANGED <<call, outcome, generated>>

(* TypedSignature::verify, lines 128-130: serialize, hash, Signature::verify. *)
TypedSignature_verify ==
    /\ Running
    /\ Top.fn = "TypedSignature::verify" /\ Top.pc = "L128"
    /\ stack' = <<Return(Top,
                    IF ~to_vec_ok(Top.args.data)
                    THEN InvalidFormat(<<Text("data", 4)>>)
                    ELSE Signature_verify(Top.args.self.signature,
                                          Hash256_hash(to_vec(Top.args.data)),
                                          Top.args.public_key))>>
    /\ UNCHANGED <<call, outcome, generated>>

(* generate_keypair, lines 185-198. *)
generate_keypair_call ==
    /\ Running
    /\ Top.fn = "generate_keypair" /\ Top.pc = "L185"
    /\ LET pair == generate_keypair(Top.args.seed)
       IN  /\ stack' = <<Return(Top, Returned(pair))>>
           /\ generated' = [generated EXCEPT ![Top.args.seed] = Append(@, pair)]
    /\ UNCHANGED <<call, outcome>>

(* Hash256::aggregate, line 44. *)
Hash256_aggregate_call ==
    /\ Running
    /\ Top.fn = "Hash256::aggregate" /\ Top.pc = "L44"
    /\ stack' = <<Return(Top, Returned(Hash256_aggregate(Top.args.self,
                                                          Top.args.other)))>>
    /\ UNCHANGED <<call, outcome, generated>>

(***************************************************************************)
(* What a caller does with the value its callee returned: the ? of lines   *)
(* 73 and 179 passes an Err on, line 113 wraps an Ok signature.            *)
(***************************************************************************)
Resume(caller, r) ==
    CASE caller.fn = "Signature::sign" ->
            Return(caller,
                   IF r.kind # "Ok" THEN r
                   ELSE Signature_sign_body(caller.args.data,
                                            caller.args.public_key,
                                            caller.args.private_key))
      [] caller.fn = "check_keypair_match" ->
            Return(caller,
                   IF r.kind # "Ok" THEN r
                   ELSE Signature_verify(r.val,
                                         Hash256_hash(KeypairCheckMessage),
                                         caller.args.public_key))
      [] caller.fn = "TypedSignature::sign" ->
            Return(caller,
                   IF r.kind = "Ok" THEN Ok(TypedSignature_new(r.val)) ELSE r)

(* The top frame returns: to its caller's frame, or to the module's caller. *)
ReturnToCaller ==
    /\ Running
    /\ Top.pc = "ret"
    /\ IF Len(stack) = 1
       THEN /\ outcome' = Top.ret
            /\ stack' = <<>>
       ELSE /\ stack' = [SubSeq(stack, 1, Len(stack) - 1)
                            EXCEPT ![Len(stack) - 1] = Resume(@, Top.ret)]
            /\ UNCHANGED outcome
    /\ UNCHANGED <<call, generated>>

(* The module's caller takes the returned value and is free to call again. *)
TakeResult ==
    /\ stack = <<>>
    /\ outcome.kind \notin {"none", "pending", "abort"}
    /\ outcome' = NoRet
    /\ call' = [fn |-> "none", args |-> <<>>]
    /\ UNCHANGED <<stack, generated>>

Next ==
    \/ CallSign
    \/ CallVerify
    \/ CallTypedSign
    \/ CallTypedVerify
    \/ CallCheckKeypairMatch
    \/ CallAggregate
    \/ Signature_sign
    \/ check_keypair_match
    \/ StackOverflow
    \/ TypedSignature_sign
    \/ Signature_verify_call
    \/ TypedSignature_verify
    \/ Hash256_aggregate_call
    \/ ReturnToCaller
    \/ TakeResult

Spec == Init /\ [][Next]_vars

(***************************************************************************)
(* generate_keypair reads nothing the other functions write, so its calls  *)
(* are followed on their own, with the history of what each seed returned. *)
(***************************************************************************)
NextKeygen ==
    \/ CallGenerateKeypair
    \/ generate_keypair_call
    \/ ReturnToCaller
    \/ TakeResult

SpecKeygen == Init /\ [][NextKeygen]_vars

TypeOK ==
    /\ Len(stack) <= MaxStack
    /\ outcome.kind \in {"none", "pending", "abort", "Ok", "InvalidFormat",
                         "VerificationFailed", "Value"}

(***************************************************************************)
(* Vocabulary of the properties.                                           *)
(***************************************************************************)
Finished == outcome.kind \notin {"none", "pending"}
IsError(r) == r.kind \in {"InvalidFormat", "VerificationFailed"}
IsResult(r) == r.kind = "Ok" \/ IsError(r)
Frames == {stack[i] : i \in DOMAIN stack}
CallKeysMatch == Matching(call.args.public_key, call.args.private_key)
Mentions(context, key) ==
    \E i \in DOMAIN context, j \in DOMAIN key.key : context[i] = key.key[j]

(***************************************************************************)
(* The recursion between lines 73 and 179 is unconditional: a frame of     *)
(* Signature::sign or check_keypair_match never reaches its return, and a  *)
(* frame below the top is always waiting in one of those two calls for a   *)
(* callee with the same keys.                                              *)
(***************************************************************************)
SignNeverReturns ==
    /\ \A f \in Frames :
          f.fn \in {"Signature::sign", "check_keypair_match"} => f.pc # "ret"
    /\ \A i \in DOMAIN stack :
          i < Len(stack) =>
             /\ stack[i].pc \in {"L73", "L178", "L113"}
             /\ stack[i + 1].fn \in {"Signature::sign", "check_keypair_match"}
             /\ stack[i + 1].args.public_key = stack[i].args.public_key
             /\ stack[i + 1].args.private_key = stack[i].args.private_key
    /\ (Finished /\ call.fn \in {"Signature::sign", "check_keypair_match"})
          => outcome.kind = "abort"

(* C1: Signature::sign(h, pub, priv) with a matching keypair returns Ok(sig), *)
(* and sig.verify(h, pub) then returns Ok(()).                                *)
C1_RoundTrip ==
    (call.fn = "Signature::sign" /\ CallKeysMatch /\ Finished) =>
        /\ outcome.kind = "Ok"
        /\ Signature_verify(outcome.val, call.args.data,
                            call.args.public_key).kind = "Ok"

(* C2: every call of Signature::sign, TypedSignature::sign and             *)
(* check_keypair_match ends by returning a Result, Ok or a CryptoError, to *)
(* its caller; none ends in an abort or in unbounded recursion.            *)
C2_CallsReturnAResult ==
    (call.fn \in {"Signature::sign", "TypedSignature::sign",
                  "check_keypair_match"} /\ Finished)
        => IsResult(outcome)

(* C3: check_keypair_match(pub, priv) returns Ok(()) exactly for the pairs *)
(* generate_keypair produces, and Err(VerificationFailed) or               *)
(* Err(InvalidFormat) for a public key and a private key of different      *)
(* generations.                                                            *)
C3_KeypairMatchIff ==
    (call.fn = "check_keypair_match" /\ Finished) =>
        /\ CallKeysMatch => outcome.kind = "Ok"
        /\ ~CallKeysMatch => IsError(outcome)

(* C4: Signature::sign with keys that do not match never returns Ok: the   *)
(* keypair check comes first and sign returns Err(InvalidFormat) or        *)
(* Err(VerificationFailed).                                                *)
C4_MismatchIsAnError ==
    (call.fn = "Signature::sign" /\ ~CallKeysMatch /\ Finished) =>
        IsError(outcome)

C6_TypedSignatureRoundTrip ==
    (call.fn = "TypedSignature::sign" /\ Finished) =>
        IF ~to_vec_ok(call.args.data)
        THEN outcome.kind = "InvalidFormat"
        ELSE CallKeysMatch =>
               /\ outcome.kind = "Ok"
               /\ \A v \in {w \in Values : to_vec_ok(w)} :
                     LET r == Signature_verify(outcome.val.signature,
                                               Hash256_hash(to_vec(v)),
                                               call.args.public_key)
                     IN  IF to_vec(v) = to_vec(call.args.data)
                         THEN r.kind = "Ok"
                         ELSE IsError(r)

(***************************************************************************)
(* What Signature::verify and TypedSignature::verify do with a signature   *)
(* that arrived from elsewhere: the signature the scheme yields for        *)
(* (h, pub, priv) is accepted for exactly (h, pub), and the typed verify   *)
(* is the plain verify on the hash of the serialization.                   *)
(***************************************************************************)
VerifyAcceptsOnlyWhatWasSigned ==
    (call.fn = "Signature::verify" /\ Finished /\ outcome.kind = "Ok") =>
        \E kp \in Keypairs :
            /\ kp[1] = call.args.public_key
            /\ call.args.self =
                  Signature(Keypair_sign(kp[2].key, kp[1].key, call.args.data.hash))

TypedVerifyDelegates ==
    (call.fn = "TypedSignature::verify" /\ Finished) =>
        IF ~to_vec_ok(call.args.data)
        THEN outcome.kind = "InvalidFormat"
        ELSE outcome.kind =
                Signature_verify(call.args.self.signature,
                                 Hash256_hash(to_vec(call.args.data)),
                                 call.args.public_key).kind

C9_AggregateOrdered ==
    (call.fn = "Hash256::aggregate" /\ outcome.kind = "Value") =>
        /\ outcome.val = [hash |-> <<Blake3(call.args.self.hash
                                            \o call.args.other.hash)>>]
        /\ call.args.self # call.args.other =>
              outcome.val # Hash256_aggregate(call.args.other, call.args.self)

C9_Witness ==
    /\ call.fn = "Hash256::aggregate"
    /\ outcome.kind = "Value"
    /\ call.args.self # call.args.other

(* C10: Signature::verify decodes the signature first and returns          *)
(* Err(InvalidFormat) for one that does not decode whatever the public key *)
(* is, then decodes the public key and returns Err(InvalidFormat) for one  *)
(* that does not decode, then returns Err(VerificationFailed) on a         *)
(* mismatch and Ok(()) only for a signature valid for (hash, pub); it      *)
(* never invokes the keypair check.                                        *)
C10_VerifyOrder ==
    /\ call.fn = "Signature::verify" =>
          \A f \in Frames : f.fn = "Signature::verify"
    /\ (call.fn = "Signature::verify" /\ Finished) =>
          LET sig_ok == Signature_from_bytes_ok(call.args.self.signature)
              key_ok == PublicKey_from_bytes_ok(call.args.public_key.key)
          IN  /\ ~sig_ok =>
                    /\ outcome.kind = "InvalidFormat"
                    /\ outcome.val[1] = Text("signature: ", 11)
              /\ (sig_ok /\ ~key_ok) =>
                    /\ outcome.kind = "InvalidFormat"
                    /\ outcome.val[1] = Text("public_key: ", 12)
              /\ (sig_ok /\ key_ok) =>
                    IF PublicKey_verify(call.args.public_key.key,
                                        call.args.data.hash,
                                        call.args.self.signature)
                    THEN outcome.kind = "Ok"
                    ELSE outcome.kind = "VerificationFailed"

C10_Witness ==
    /\ call.fn = "Signature::verify"
    /\ ~Signature_from_bytes_ok(call.args.self.signature)
    /\ ~PublicKey_from_bytes_ok(call.args.public_key.key)
    /\ outcome.kind = "InvalidFormat"

====
